---- MODULE Spec2Model ----
(***************************************************************************)
(* New-data tracking endpoints of the Lok Sabha Database API (src/main.py, *)
(* "NEW DATA TRACKING ENDPOINTS").  The store is the MySQL database: one   *)
(* list of rows per trackable table, each row carrying its member          *)
(* reference, its is_new flag and its scraped_at timestamp.  A request is  *)
(* one handler invocation; every cursor.execute of a handler is one step,  *)
(* so that the external scraper can write between two statements of the    *)
(* same request.  The scrape_tracker table, which only the scraper writes, *)
(* is kept in the store beside them, as a set of rows (one per table).     *)
(***************************************************************************)
EXTENDS Integers, Sequences, FiniteSets, TLC

\* ------------------------------------------------------------------ bounds
MaxRows == 3        \* rows the scraper inserts in one run of the model
MaxPage == 3        \* largest page number a client asks for
SizeLimit == 100    \* Query(50, ge=1, le=100)
pool_size == 10     \* MySQLConnectionPool(pool_size=10)

Clients == {1, 2, 3}
Members == {1, 2}                 \* mp_code values of existing members
MpCodes == Members \cup {3}       \* 3 belongs to no member

\* what the scraper writes into the row it inserts under primary key id: the
\* members take turns, and two consecutive rows come from the same scrape
ScrapedOwner(id) == 1 + (id % 2)
ScrapedAt(id) == (id + 1) \div 2
Sizes == {1, 2, SizeLimit}        \* page sizes a client asks for
Pages == 1..MaxPage

\* the (page, size) pairs a client sends: the valid ones, and one pair for each
\* way a pair can be invalid
QueryInputs ==
    (Pages \X Sizes) \cup { << 0, 1 >>, << 1, 0 >>, << 1, SizeLimit + 1 >> }

\* ------------------------------------------------------------------ tables
\* get_new_data_summary: tables = [...]
SummaryTables ==
    << "assurance", "gallery", "member_attendance", "member_bills",
       "member_committees", "member_dashboard", "government_bills",
       "member_debates", "member_other_details", "member_personal_details",
       "member_questions", "member_special_mentions", "mp_tour" >>

Trackable == { SummaryTables[i] : i \in 1..Len(SummaryTables) }

\* mark_all_read: allowed_tables = [...]
allowed_tables ==
    { "member_questions", "member_debates", "member_special_mentions",
      "government_bills", "member_bills", "assurance", "gallery" }

\* table names a client passes to mark_all_read
TableNames == Trackable \cup {"not_a_real_table"}

\* tables the scraper writes to in this model (the others stay empty)
ScrapedTables == {"member_questions", "member_debates", "member_bills", "mp_tour"}

\* the member-reference column of a table, as the listing endpoints use it
\* (get_questions, get_debates, get_special_mentions: srno; get_private_bills: mp_code)
OwnerColumn ==
    [t \in Trackable |->
        IF t \in {"assurance", "gallery", "member_bills", "member_committees",
                  "member_attendance"}
        THEN "mp_code" ELSE "srno"]

VARIABLES
    store,        \* store[t]: the rows of table t, in primary-key order
    mp_code_col,  \* whether the srno tables also have a column named mp_code
    req,          \* req[c]: the request client c has in progress (or finished)
    resp,         \* resp[c]: the response of c's finished request
    pool          \* connection_pool: the connections waiting in the pool

vars == << store, mp_code_col, req, resp, pool >>

\* ----------------------------------------------------------------- helpers
Min(a, b) == IF a < b THEN a ELSE b
Max(a, b) == IF a > b THEN a ELSE b

RECURSIVE SumCounts(_)
\* sum(s['new_count'] for s in summary)
SumCounts(s) == IF s = << >> THEN 0 ELSE Head(s).new_count + SumCounts(Tail(s))

\* the number of activity kinds instead of their sum
SumValues_Len(s) == Len(s)

RECURSIVE SumValues(_)
\* sum(activities.values())
SumValues(s) == IF s = << >> THEN 0 ELSE Head(s) + SumValues(Tail(s))

Ids(t) == 1..Len(store[t])

\* ... FROM t WHERE is_new = TRUE
UnseenIds(t) == { i \in Ids(t) : store[t][i].is_new }

\* the count without its WHERE clause
CountNew_AllRows(t) == Len(store[t])

\* SELECT COUNT(*) FROM t WHERE is_new = TRUE
CountNew(t) == Cardinality(UnseenIds(t))

\* SELECT COUNT(*) FROM t WHERE mp_code = m AND is_new = TRUE, on a table that
\* has that column
CountNewOf(t, m) == Cardinality({ i \in UnseenIds(t) : store[t][i].owner = m })

\* one row of a result set (SELECT *); id is the table's primary key
Row(t, i) ==
    [id |-> i, owner |-> store[t][i].owner, is_new |-> store[t][i].is_new,
     scraped_at |-> store[t][i].scraped_at]

\* ... WHERE is_new = TRUE ORDER BY scraped_at DESC: every order of the unseen
\* rows the store may produce (rows with equal scraped_at come in any order)
OrderBy(t) ==
    LET S == UnseenIds(t)
        n == Cardinality(S)
    IN  { f \in [1..n -> S] :
            /\ \A i, j \in 1..n : i # j => f[i] # f[j]
            /\ \A i, j \in 1..n :
                 i < j => store[t][f[i]].scraped_at >= store[t][f[j]].scraped_at }

\* the rows from the offset on, without the LIMIT
LimitOffset_NoLimit(t, ord, size, offset) ==
    LET n == Max(0, Len(ord) - offset)
    IN  [k \in 1..n |-> Row(t, ord[offset + k])]

\* ... LIMIT size OFFSET offset, applied to one order of the rows
LimitOffset(t, ord, size, offset) ==
    LET n == Min(size, Max(0, Len(ord) - offset))
    IN  [k \in 1..n |-> Row(t, ord[offset + k])]

\* the offset counted from page 0
Offset_FromZero(page, size) == page * size

\* offset = (page - 1) * size
Offset(page, size) == (page - 1) * size

\* the page count rounded down
PageCount_Floor(total, size) == total \div size

\* "pages": (total + size - 1) // size
PageCount(total, size) == (total + size - 1) \div size

TotalRows ==
    LET RECURSIVE Tot(_)
        Tot(i) == IF i = 0 THEN 0 ELSE Len(store[SummaryTables[i]]) + Tot(i - 1)
    IN Tot(Len(SummaryTables))

\* ---------------------------------------------------------------- requests
NoResp == [status |-> 0]
Idle == [op |-> "idle", pc |-> "idle"]
NoPrev == [op |-> "none"]

ReadOps ==
    { "get_new_data_summary", "get_new_questions", "get_new_debates",
      "get_new_government_bills", "get_new_special_mentions",
      "get_member_new_activities", "get_scrape_tracker" }
ListingOps ==
    { "get_new_questions", "get_new_debates", "get_new_government_bills",
      "get_new_special_mentions" }
AckOps == { "mark_question_read", "mark_debate_read", "mark_all_read" }

\* the table each per-table listing reads
ListingTable ==
    [o \in ListingOps |->
        CASE o = "get_new_questions" -> "member_questions"
          [] o = "get_new_debates" -> "member_debates"
          [] o = "get_new_government_bills" -> "government_bills"
          [] o = "get_new_special_mentions" -> "member_special_mentions"]

\* get_member_new_activities: the four tables it counts, in statement order
ActivityTables ==
    << "member_questions", "member_debates", "member_bills", "member_special_mentions" >>

\* client c has no request in flight
Resting(c) == req[c].pc \in {"idle", "done"}

\* a client is free to send a request, and get_db finds a connection for it
\* (connection = connection_pool.get_connection())
Free(c) == Resting(c) /\ pool > 0

\* the tables a request reads or writes
Touches(r, t) ==
    CASE r.op = "get_new_data_summary" -> t \in Trackable
      [] r.op \in ListingOps -> t = ListingTable[r.op]
      [] r.op = "get_member_new_activities" ->
            \E k \in 1..Len(ActivityTables) : ActivityTables[k] = t
      [] r.op = "mark_question_read" -> t = "member_questions"
      [] r.op = "mark_debate_read" -> t = "member_debates"
      [] r.op = "mark_all_read" -> t = r.key
      [] OTHER -> FALSE

\* History kept with an acknowledgment: the acknowledgment the same client
\* finished immediately before it, when it was the same call with the same key
\* (clean: nobody else wrote the table since that call).
PrevOf(c, op, key) ==
    LET o == req[c] IN
    IF o.pc = "done" /\ o.op = op /\ o.key = key
    THEN [op |-> o.op, key |-> o.key, status |-> resp[c].status, clean |-> o.quiet]
    ELSE NoPrev

\* get_db around the step of client c that ends its request: a request that
\* ends with its first statement takes a connection and gives it back, a
\* request that was under way gives back the one it holds (finally:
\* connection.close(), on a return and on an HTTPException alike)
Released(c) == IF Resting(c) THEN pool ELSE pool + 1

\* get_db around a step of client c after which the request goes on: its first
\* statement takes a connection out of the pool
Held(c) == IF Resting(c) THEN pool - 1 ELSE pool

Finish(c, r, answer) ==
    /\ req' = [req EXCEPT ![c] = r]
    /\ resp' = [resp EXCEPT ![c] = answer]
    /\ pool' = Released(c)

Continue(c, r) ==
    /\ req' = [req EXCEPT ![c] = r]
    /\ resp' = [resp EXCEPT ![c] = NoResp]
    /\ pool' = Held(c)

\* the requests as a write to table t leaves them: quiet is history, it records
\* that nobody else wrote a table the request touches since the request's
\* last statement
Disturbed(t) ==
    [d \in Clients |->
        IF req[d].op # "idle" /\ Touches(req[d], t)
        THEN [req[d] EXCEPT !.quiet = FALSE] ELSE req[d]]

\* client c finishes a request that wrote table t
FinishWrite(c, t, r, answer) ==
    /\ req' = [Disturbed(t) EXCEPT ![c] = r]
    /\ resp' = [resp EXCEPT ![c] = answer]
    /\ pool' = Released(c)

\* ------------------------------------------------------------- the scraper
\* the scrape_tracker row of table t after the scrape that inserted row id
TrackerEntry(t, id) ==
    [table_name |-> t, last_max_id |-> id, last_scrape_time |-> ScrapedAt(id),
     new_records_count |-> 1, total_records |-> id, scrape_status |-> "completed"]

\* The external scraper inserts one row with is_new = TRUE, then updates the
\* scrape_tracker row of that table.
ScraperInsert(t) ==
    /\ TotalRows < MaxRows
    /\ LET id == Len(store[t]) + 1
       IN  store' = [store EXCEPT
                       ![t] = Append(@, [owner |-> ScrapedOwner(id), is_new |-> TRUE,
                                         scraped_at |-> ScrapedAt(id)]),
                       !["scrape_tracker"] =
                           { e \in @ : e.table_name # t } \cup {TrackerEntry(t, id)}]
    /\ req' = [d \in Clients |->
                 IF req[d].op = "get_scrape_tracker"
                 THEN [req[d] EXCEPT !.quiet = FALSE] ELSE Disturbed(t)[d]]
    /\ UNCHANGED << mp_code_col, resp, pool >>

\* ------------------------------------------------- GET /api/new-data/summary
get_new_data_summary(c) ==
    /\ Free(c) \/ (req[c].op = "get_new_data_summary" /\ req[c].pc = "loop")
    /\ LET r == IF Free(c)
                THEN [op |-> "get_new_data_summary", pc |-> "loop", i |-> 1,
                      summary |-> << >>, quiet |-> TRUE]
                ELSE req[c]
           table == SummaryTables[r.i]
           count == CountNew(table)
           summary == IF count > 0
                      THEN Append(r.summary, [table |-> table, new_count |-> count])
                      ELSE r.summary
       IN  IF r.i < Len(SummaryTables)
           THEN Continue(c, [r EXCEPT !.i = r.i + 1, !.summary = summary])
           ELSE Finish(c, [r EXCEPT !.pc = "done", !.summary = summary],
                       [status |-> 200,
                        total_new_records |-> SumCounts(summary),
                        tables |-> summary])
    /\ UNCHANGED << store, mp_code_col >>

\* ------------------------------------------------ the per-table listings
\* page: int = Query(1, ge=1), size: int = Query(50, ge=1, le=100)
ValidQuery(page, size) == page >= 1 /\ size >= 1 /\ size <= SizeLimit

\* the response of a listing; only get_new_questions returns "pages"
ListingResponse(op, total, page, size, data) ==
    IF op = "get_new_questions"
    THEN [status |-> 200, total_new |-> total, page |-> page, size |-> size,
          pages |-> PageCount(total, size), data |-> data]
    ELSE [status |-> 200, total_new |-> total, page |-> page, size |-> size,
          data |-> data]

\* the first statement: SELECT COUNT(*) as total ... WHERE is_new = TRUE
ListingCount(c, op, page, size) ==
    /\ Free(c)
    /\ IF ValidQuery(page, size)
       THEN Continue(c, [op |-> op, pc |-> "data", page |-> page, size |-> size,
                         total |-> CountNew(ListingTable[op]), quiet |-> TRUE])
       ELSE Finish(c, [op |-> op, pc |-> "done", quiet |-> TRUE], [status |-> 422])
    /\ UNCHANGED << store, mp_code_col >>

\* the data query of a listing that marks what it lists as seen
ListingData_MarkSeen(c, op) ==
    /\ req[c].op = op /\ req[c].pc = "data"
    /\ LET r == req[c]
           t == ListingTable[op]
       IN  \E ord \in OrderBy(t) :
             Finish(c, [r EXCEPT !.pc = "done"],
                    ListingResponse(op, r.total, r.page, r.size,
                        LimitOffset(t, ord, r.size, Offset(r.page, r.size))))
    /\ store' = [store EXCEPT ![ListingTable[op]] =
                    [i \in DOMAIN @ |-> [@[i] EXCEPT !.is_new = FALSE]]]
    /\ UNCHANGED mp_code_col

\* the second statement: SELECT * ... ORDER BY scraped_at DESC LIMIT OFFSET
ListingData(c, op) ==
    /\ req[c].op = op /\ req[c].pc = "data"
    /\ LET r == req[c]
           t == ListingTable[op]
       IN  \E ord \in OrderBy(t) :
             Finish(c, [r EXCEPT !.pc = "done"],
                    ListingResponse(op, r.total, r.page, r.size,
                        LimitOffset(t, ord, r.size, Offset(r.page, r.size))))
    /\ UNCHANGED << store, mp_code_col >>

Listing(c, op) ==
    \/ \E q \in QueryInputs : ListingCount(c, op, q[1], q[2])
    \/ ListingData(c, op)

get_new_questions(c) == Listing(c, "get_new_questions")
get_new_debates(c) == Listing(c, "get_new_debates")
get_new_government_bills(c) == Listing(c, "get_new_government_bills")
get_new_special_mentions(c) == Listing(c, "get_new_special_mentions")

\* ------------------------------- GET /api/members/{mp_code}/new-activities
\* Every statement filters on the column mp_code.  member_bills has it; for
\* member_questions, member_debates and member_special_mentions, whose member
\* reference is srno, the statement fails when the table has no such column
\* (mp_code_col = FALSE) and the request ends in a server error.
get_member_new_activities(c) ==
    /\ Free(c) \/ (req[c].op = "get_member_new_activities" /\ req[c].pc = "count")
    /\ \E mp_code \in MpCodes :
         LET r == IF Free(c)
                  THEN [op |-> "get_member_new_activities", pc |-> "count",
                        mp_code |-> mp_code, counts |-> << >>, quiet |-> TRUE]
                  ELSE req[c]
             table == ActivityTables[Len(r.counts) + 1]
             counts == Append(r.counts, CountNewOf(table, r.mp_code))
         IN  /\ Free(c) \/ mp_code = r.mp_code
             /\ IF OwnerColumn[table] # "mp_code" /\ ~mp_code_col
                THEN Finish(c, [r EXCEPT !.pc = "done"], [status |-> 500])
                ELSE IF Len(counts) < Len(ActivityTables)
                THEN Continue(c, [r EXCEPT !.counts = counts])
                ELSE Finish(c, [r EXCEPT !.pc = "done", !.counts = counts],
                            [status |-> 200,
                             mp_code |-> r.mp_code,
                             activities |->
                                [new_questions |-> counts[1],
                                 new_debates |-> counts[2],
                                 new_bills |-> counts[3],
                                 new_mentions |-> counts[4]],
                             total_new |-> SumValues(counts)])
    /\ UNCHANGED << store, mp_code_col >>

\* ------------------------------------------------------- acknowledgments
\* the UPDATE without its WHERE clause
UpdateById_AllRows(t, id) ==
    [store EXCEPT ![t] = [i \in DOMAIN @ |-> [@[i] EXCEPT !.is_new = FALSE]]]

\* the UPDATE flipping the flag (SET is_new = NOT is_new)
UpdateById_Toggle(t, id) ==
    [store EXCEPT ![t] =
        [i \in DOMAIN @ |-> IF i = id THEN [@[i] EXCEPT !.is_new = ~@] ELSE @[i]]]

\* UPDATE t SET is_new = FALSE WHERE <primary key> = id; db.commit()
UpdateById(t, id) ==
    [store EXCEPT ![t] =
        [i \in DOMAIN @ |-> IF i = id THEN [@[i] EXCEPT !.is_new = FALSE] ELSE @[i]]]

\* the bulk UPDATE stamping the rows as well (SET is_new = FALSE, scraped_at = 0)
UpdateAll_Restamp(t) ==
    [store EXCEPT ![t] =
        [i \in DOMAIN @ |-> [@[i] EXCEPT !.is_new = FALSE, !.scraped_at = 0]]]

\* the bulk UPDATE restricted to the rows of the first member
UpdateAll_OneOwner(t) ==
    [store EXCEPT ![t] =
        [i \in DOMAIN @ |-> IF @[i].owner = 1 THEN [@[i] EXCEPT !.is_new = FALSE] ELSE @[i]]]

\* UPDATE t SET is_new = FALSE WHERE is_new = TRUE; db.commit()
UpdateAll(t) ==
    [store EXCEPT ![t] = [i \in DOMAIN @ |-> [@[i] EXCEPT !.is_new = FALSE]]]

\* rowcount as the rows the WHERE clause matched (found_rows)
RowcountById_Matched(t, id) == Cardinality({ i \in Ids(t) : i = id })

\* cursor.rowcount of the UPDATE by primary key: the rows the statement changed
\* (the connection does not set found_rows, so an unchanged match counts 0)
RowcountById(t, id) == Cardinality({ i \in UnseenIds(t) : i = id })

\* rowcount as the number of rows of the table
RowcountAll_Table(t) == Len(store[t])

\* cursor.rowcount of UPDATE ... WHERE is_new = TRUE
RowcountAll(t) == CountNew(t)

MarkRead(c, op, t, id, what) ==
    /\ Free(c)
    /\ store' = UpdateById(t, id)
    /\ FinishWrite(c, t, [op |-> op, pc |-> "done", key |-> id, quiet |-> TRUE,
                  prev |-> PrevOf(c, op, id)],
              IF RowcountById(t, id) = 0
              THEN [status |-> 404, detail |-> what \o " not found"]
              ELSE [status |-> 200, body_status |-> "success",
                    message |-> what \o " marked as read"])
    /\ UNCHANGED mp_code_col

\* POST /api/questions/{question_id}/mark-read
mark_question_read(c) ==
    \E question_id \in 1..MaxRows + 1 :
        MarkRead(c, "mark_question_read", "member_questions", question_id, "Question")

\* POST /api/debates/{debate_id}/mark-read
mark_debate_read(c) ==
    \E debate_id \in 1..MaxRows + 1 :
        MarkRead(c, "mark_debate_read", "member_debates", debate_id, "Debate")

\* the name checked against the summary's list of tables
InvalidTable_SummaryList(table_name) == table_name \notin Trackable

\* if table_name not in allowed_tables
InvalidTable(table_name) == table_name \notin allowed_tables

\* mark_all_read called with table_name
MarkAll(c, table_name) ==
    /\ Free(c)
    /\ LET r == [op |-> "mark_all_read", pc |-> "done", key |-> table_name,
                 quiet |-> TRUE, prev |-> PrevOf(c, "mark_all_read", table_name)]
       IN  IF InvalidTable(table_name)
           THEN /\ Finish(c, r, [status |-> 400, detail |-> "Invalid table name"])
                /\ UNCHANGED store
           ELSE /\ store' = UpdateAll(table_name)
                /\ FinishWrite(c, table_name, r,
                               [status |-> 200, body_status |-> "success",
                                table |-> table_name,
                                records_marked |-> RowcountAll(table_name)])
    /\ UNCHANGED mp_code_col

\* POST /api/new-data/mark-all-read/{table_name}
mark_all_read(c) == \E table_name \in TableNames : MarkAll(c, table_name)

\* ------------------------------------------------ GET /api/scrape-tracker
\* SELECT ... FROM scrape_tracker ORDER BY last_scrape_time DESC: every order
\* of the rows the store may produce
TrackerOrders ==
    LET S == store["scrape_tracker"]
        n == Cardinality(S)
    IN  { f \in [1..n -> S] :
            /\ \A i, j \in 1..n : i # j => f[i] # f[j]
            /\ \A i, j \in 1..n :
                 i < j => f[i].last_scrape_time >= f[j].last_scrape_time }

get_scrape_tracker(c) ==
    /\ Free(c)
    /\ \E data \in TrackerOrders :
         Finish(c, [op |-> "get_scrape_tracker", pc |-> "done", quiet |-> TRUE],
                [status |-> 200, trackers |-> data])
    /\ UNCHANGED << store, mp_code_col >>

\* ------------------------------------------------------- failing requests
\* A statement of client c's request raises mysql.connector.Error (the first
\* statement of a new request, or the next one of the request under way).
\* Nothing is written, the handlers catch nothing and the request ends in a
\* server error.  get_db's finally gives the connection back only if
\* connection.is_connected(): a failure that cost the connection (connected =
\* FALSE) skips connection.close(), and the pool does not get it back.
StoreFailure(c) ==
    /\ Free(c) \/ ~Resting(c)
    /\ \E connected \in BOOLEAN :
         pool' = (IF Resting(c) THEN pool - 1 ELSE pool) + (IF connected THEN 1 ELSE 0)
    /\ req' = [req EXCEPT ![c] = [op |-> "failed", pc |-> "done", quiet |-> TRUE]]
    /\ resp' = [resp EXCEPT ![c] = [status |-> 500]]
    /\ UNCHANGED << store, mp_code_col >>

\* connection_pool.get_connection() finds the pool empty and raises PoolError:
\* the request ends in a server error before its handler runs, and get_db has
\* no connection to give back
PoolExhausted(c) ==
    /\ Resting(c) /\ pool = 0
    /\ req' = [req EXCEPT ![c] = [op |-> "failed", pc |-> "done", quiet |-> TRUE]]
    /\ resp' = [resp EXCEPT ![c] = [status |-> 500]]
    /\ UNCHANGED << store, mp_code_col, pool >>

\* ------------------------------------------------------------ the system
Init ==
    /\ store = [t \in Trackable \cup {"scrape_tracker"} |->
                    IF t = "scrape_tracker" THEN {} ELSE << >>]
    /\ mp_code_col \in BOOLEAN
    /\ req = [c \in Clients |-> Idle]
    /\ resp = [c \in Clients |-> NoResp]
    /\ pool = pool_size

\* one client at a time: requests follow each other, the scraper runs beside them
Next ==
    \/ \E t \in ScrapedTables : ScraperInsert(t)
    \/ get_new_data_summary(1)
    \/ get_new_questions(1)
    \/ get_new_debates(1)
    \/ get_new_government_bills(1)
    \/ get_new_special_mentions(1)
    \/ get_member_new_activities(1)
    \/ mark_question_read(1)
    \/ mark_debate_read(1)
    \/ mark_all_read(1)
    \/ get_scrape_tracker(1)

Spec == Init /\ [][Next]_vars

\* two clients whose requests overlap, on a store whose statements can fail
NextPool ==
    \E c \in {1, 2} :
        \/ get_new_questions(c)
        \/ mark_question_read(c)
        \/ MarkAll(c, "not_a_real_table")
        \/ MarkAll(c, "member_questions")
        \/ StoreFailure(c)
        \/ PoolExhausted(c)

SpecPool == Init /\ [][NextPool]_vars

\* the tables the concurrent bulk acknowledgments are sent for
AckTables == {"member_questions", "member_debates"}

\* every client sends one mark_all_read, at any moment, while the scraper inserts
NextAcks ==
    \/ \E t \in AckTables : ScraperInsert(t)
    \/ \E c \in Clients, t \in AckTables : req[c].op = "idle" /\ MarkAll(c, t)

SpecAcks == Init /\ [][NextAcks]_vars

\* the read requests of client c
Reads(c) ==
    \/ get_new_data_summary(c)
    \/ get_new_questions(c)
    \/ get_member_new_activities(c)
    \/ get_scrape_tracker(c)

\* client 1 sends a read request and, once it is answered, client 2 sends one;
\* the scraper inserts and client 3 acknowledges a question at any moment
NextReads ==
    \/ ScraperInsert("member_questions")
    \/ req[3].op = "idle" /\ mark_question_read(3)
    \/ (req[1].op = "idle" \/ ~Resting(1)) /\ Reads(1)
    \/ ((req[1].pc = "done" /\ req[2].op = "idle") \/ ~Resting(2)) /\ Reads(2)

SpecReads == Init /\ [][NextReads]_vars

\* the scraper fills two tables that only the summary reads; client 1 asks for
\* summaries while client 2 sends every kind of acknowledgment
NextSummary ==
    \/ \E t \in {"member_attendance", "mp_tour"} : ScraperInsert(t)
    \/ get_new_data_summary(1)
    \/ mark_all_read(2)
    \/ mark_question_read(2)
    \/ mark_debate_read(2)

SpecSummary == Init /\ [][NextSummary]_vars

\* clients 1 and 2 ask for pages 1 and 2 of the unseen questions, with size 1
\* or 2, while the scraper inserts questions and client 3 acknowledges them
NextPages ==
    \/ ScraperInsert("member_questions")
    \/ \E c \in {1, 2}, size \in {1, 2} :
          ListingCount(c, "get_new_questions", c, size)
    \/ \E c \in {1, 2} : ListingData(c, "get_new_questions")
    \/ MarkAll(3, "member_questions")

SpecPages == Init /\ [][NextPages]_vars

\* ================================================================ claims
\* the rows of T with is_new = true
NewRows(T) == { i \in DOMAIN store[T] : store[T][i].is_new = TRUE }

Done(c, op) == req[c].op = op /\ req[c].pc = "done"
Ok(c) == resp[c].status = 200

\* the step is a step of client c's own handler (a write by somebody else
\* changes at most the quiet mark of c's request)
OwnStep(c) ==
    /\ req'[c] # req[c] \/ resp'[c] # resp[c]
    /\ req'[c] # (IF req[c].op = "idle" THEN req[c] ELSE [req[c] EXCEPT !.quiet = FALSE])

NoEntry(tables, T) == \A k \in 1..Len(tables) : tables[k].table # T
EntriesFor(tables, T) == { k \in 1..Len(tables) : tables[k].table = T }

\* the summary list a summary step starts from
SummaryBefore(c) ==
    IF req[c].op = "get_new_data_summary" /\ req[c].pc = "loop"
    THEN req[c].summary ELSE << >>

SingleAckTable(op) ==
    IF op = "mark_question_read" THEN "member_questions" ELSE "member_debates"
SingleAcks == { "mark_question_read", "mark_debate_read" }

\* ---- C1
\* after a mark_all_read on T that nobody's write followed, T has no unseen row;
\* a summary taken while T has no unseen row does not list T
C1_State(Tables) ==
    \A c \in Clients, T \in Tables :
        /\ Done(c, "mark_all_read") /\ req[c].key = T /\ req[c].quiet
              => Cardinality(NewRows(T)) = 0
        /\ Done(c, "get_new_data_summary") /\ req[c].quiet /\ NewRows(T) = {}
              => NoEntry(resp[c].tables, T)

\* without an insert into T, an unseen count of 0 stays 0
C1_StaysZero ==
    \A T \in Trackable :
        (store'[T] # store[T] /\ NewRows(T) = {} /\ Len(store'[T]) = Len(store[T]))
            => NewRows(T)' = {}

\* a summary step adds no entry for a table that has no unseen row, and the
\* response carries the list the loop built
C1_SummarySkips ==
    \A c \in Clients :
        req'[c].op = "get_new_data_summary" /\ OwnStep(c) =>
            /\ \A T \in Trackable :
                 NewRows(T) = {} =>
                    EntriesFor(req'[c].summary, T) = EntriesFor(SummaryBefore(c), T)
            /\ req'[c].pc = "done" => resp'[c].tables = req'[c].summary

\* C1 as stated: for every table T of the trackable set (the tables the global
\* summary counts), once a mark-all-read call on T has completed and no scraper
\* insert happened since, T has 0 unseen rows and the summary does not list T.
C1_Original == C1_State(Trackable)

\* C1 as amended: the same for every table T of mark_all_read's allow-list
\* (a call on any other trackable table is rejected and clears nothing).
C1_MarkAllClears ==
    /\ [](C1_State(allowed_tables))
    /\ [][C1_StaysZero /\ C1_SummarySkips]_vars

C1_Witness ==
    \E c \in Clients :
        /\ Done(c, "mark_all_read") /\ Ok(c) /\ req[c].quiet
        /\ resp[c].records_marked >= 2
        /\ NewRows(req[c].key) = {}

\* ---- C2
\* C2: single-record acknowledgment is idempotent on the store: the first call
\* on an existing unseen record succeeds; the same call repeated immediately
\* reports 404 and leaves the store as the first call left it.
C2_SecondAckNotFound ==
    [][ \A c \in Clients :
          req'[c].op \in SingleAcks /\ OwnStep(c) =>
            /\ req'[c].key \in NewRows(SingleAckTable(req'[c].op))
                 => resp'[c].status = 200
            /\ req'[c].prev.op # "none" /\ req'[c].prev.status = 200
                 => resp'[c].status = 404 /\ store' = store ]_vars

C2_Witness ==
    \E c \in Clients :
        /\ Done(c, "mark_question_read")
        /\ req[c].prev.op = "mark_question_read" /\ req[c].prev.status = 200
        /\ resp[c].status = 404
        /\ NewRows("member_questions") # {}

\* ---- C3
\* ceil(n / d)
Ceil(n, d) == CHOOSE k \in 0..n : k * d >= n /\ (k = 0 \/ (k - 1) * d < n)

\* C3: every per-table unseen listing answers, for page >= 1 and size in
\* [1,100], with a pages field equal to ceil(total/size) and at most size records.
C3_PagesField ==
    \A c \in Clients, op \in ListingOps :
        Done(c, op) /\ Ok(c) =>
            /\ "pages" \in DOMAIN resp[c]
            /\ resp[c].pages = Ceil(resp[c].total_new, resp[c].size)
            /\ Len(resp[c].data) <= resp[c].size

\* ---- C4
\* C4: mark_all_read on an allow-listed table T returns as records_marked the
\* number of unseen rows T had just before, leaves no row of T unseen whoever
\* owns it, and, repeated with no insert in between, returns 0 with success.
C4_MarkAllCount ==
    [][ \A c \in Clients :
          (req'[c].op = "mark_all_read" /\ req'[c].key \in allowed_tables
             /\ OwnStep(c)) =>
            LET T == req'[c].key IN
            /\ resp'[c].status = 200 /\ resp'[c].body_status = "success"
            /\ resp'[c].records_marked = Cardinality(NewRows(T))
            /\ \A i \in DOMAIN store'[T] : store'[T][i].is_new = FALSE
            /\ \A U \in Trackable \ {T} : store'[U] = store[U]
            /\ (req'[c].prev.op # "none" /\ req'[c].prev.status = 200
                  /\ req'[c].prev.clean)
                 => resp'[c].records_marked = 0 ]_vars

C4_Witness ==
    \E c \in Clients :
        /\ Done(c, "mark_all_read") /\ Ok(c)
        /\ req[c].prev.op = "mark_all_read" /\ req[c].prev.status = 200
        /\ req[c].prev.clean
        /\ resp[c].records_marked = 0
        /\ \E i, j \in DOMAIN store[req[c].key] :
               store[req[c].key][i].owner # store[req[c].key][j].owner

\* ---- C5
\* C5: mark_all_read with a table name outside the allow-list answers 400 and
\* writes nothing: no row of any table changes.
C5_InvalidTableRejected ==
    [][ \A c \in Clients :
          (req'[c].op = "mark_all_read" /\ req'[c].key \notin allowed_tables
             /\ OwnStep(c))
            => resp'[c].status = 400 /\ store' = store ]_vars

C5_Witness ==
    \E c \in Clients :
        /\ Done(c, "mark_all_read") /\ req[c].key = "not_a_real_table"
        /\ resp[c].status = 400
        /\ \E T \in Trackable : NewRows(T) # {}

\* ---- C6
\* C6: the summary lists exactly the trackable tables with unseen rows, each
\* once and with its unseen count, and total_new_records is the number of
\* unseen rows of all trackable tables.
C6_SummaryExact ==
    \A c \in Clients :
        Done(c, "get_new_data_summary") /\ req[c].quiet =>
            LET tables == resp[c].tables IN
            /\ Ok(c)
            /\ \A T \in Trackable : NewRows(T) # {} <=> ~NoEntry(tables, T)
            /\ \A k \in 1..Len(tables) :
                 /\ tables[k].table \in Trackable
                 /\ tables[k].new_count = Cardinality(NewRows(tables[k].table))
                 /\ \A j \in 1..Len(tables) : tables[j].table = tables[k].table => j = k
            /\ resp[c].total_new_records =
                 Cardinality({ p \in Trackable \X (1..MaxRows) : p[2] \in NewRows(p[1]) })

C6_Witness ==
    \E c \in Clients :
        /\ Done(c, "get_new_data_summary") /\ req[c].quiet
        /\ resp[c].tables = << [table |-> "member_questions", new_count |-> 2] >>
        /\ resp[c].total_new_records = 2
        /\ Len(store["member_debates"]) > 0

\* ---- C7
\* the position in the order is one the row can take: the rows scraped later all
\* come before it, and it comes no later than the last row scraped at its time
PositionFits(T, row, pos) ==
    /\ Cardinality({ i \in NewRows(T) : store[T][i].scraped_at > row.scraped_at }) < pos
    /\ Cardinality({ i \in NewRows(T) : store[T][i].scraped_at >= row.scraped_at }) >= pos

\* C7: a listing of T with page p and size s returns as total_new the number
\* of unseen rows of T and as data the rows at positions (p-1)*s .. (p-1)*s+s-1
\* of the unseen rows of T by scraped_at descending; no row with is_new = false
\* is returned; with 3 unseen rows and size 2, page 1 has 2 records and page 2 has 1.
C7_ListingPage ==
    \A c \in Clients, op \in ListingOps :
        Done(c, op) /\ Ok(c) /\ req[c].quiet =>
            LET T == ListingTable[op]
                data == resp[c].data
                n == Cardinality(NewRows(T))
                first == (resp[c].page - 1) * resp[c].size
            IN  /\ resp[c].total_new = n
                /\ Len(data) = Min(resp[c].size, Max(0, n - first))
                /\ \A k \in 1..Len(data) :
                     /\ data[k].is_new = TRUE
                     /\ data[k].id \in NewRows(T)
                     /\ data[k].scraped_at = store[T][data[k].id].scraped_at
                     /\ data[k].owner = store[T][data[k].id].owner
                     /\ PositionFits(T, data[k], first + k)
                     /\ \A j \in 1..Len(data) : data[j].id = data[k].id => j = k
                /\ (n = 3 /\ resp[c].size = 2 /\ resp[c].page = 1) => Len(data) = 2
                /\ (n = 3 /\ resp[c].size = 2 /\ resp[c].page = 2) => Len(data) = 1

C7_Witness ==
    \E c \in Clients :
        /\ Done(c, "get_new_questions") /\ Ok(c) /\ req[c].quiet
        /\ resp[c].total_new = 3 /\ resp[c].size = 2 /\ resp[c].page = 2
        /\ Len(resp[c].data) = 1

\* ---- C8
\* C8: acknowledging a primary key of an existing unseen row sets that row's
\* is_new to false and succeeds; acknowledging a primary key that matches no
\* row answers 404 and changes no row.
C8_SingleAck ==
    [][ \A c \in Clients :
          req'[c].op \in SingleAcks /\ OwnStep(c) =>
            LET T == SingleAckTable(req'[c].op)
                id == req'[c].key
            IN  /\ id \in NewRows(T) =>
                     /\ resp'[c].status = 200
                     /\ store'[T][id].is_new = FALSE
                     /\ \A i \in DOMAIN store[T] \ {id} : store'[T][i] = store[T][i]
                /\ id \notin DOMAIN store[T] =>
                     /\ resp'[c].status = 404
                     /\ store' = store ]_vars

C8_Witness ==
    \E c \in Clients :
        /\ Done(c, "mark_debate_read") /\ Ok(c)
        /\ store["member_debates"][req[c].key].is_new = FALSE
        /\ NewRows("member_debates") # {}

\* ---- C9
\* the unseen rows of T whose member reference (the table's mp_code or srno
\* column) is m
NewRowsOf(T, m) == { i \in NewRows(T) : store[T][i].owner = m }

\* C9: get_member_new_activities reports, for questions, debates, bills and
\* special mentions, the number of unseen rows of that table whose member
\* reference equals mp_code.
C9_MemberCounts ==
    \A c \in Clients :
        Done(c, "get_member_new_activities") /\ req[c].quiet =>
            /\ Ok(c)
            /\ resp[c].activities.new_questions =
                 Cardinality(NewRowsOf("member_questions", req[c].mp_code))
            /\ resp[c].activities.new_debates =
                 Cardinality(NewRowsOf("member_debates", req[c].mp_code))
            /\ resp[c].activities.new_bills =
                 Cardinality(NewRowsOf("member_bills", req[c].mp_code))
            /\ resp[c].activities.new_mentions =
                 Cardinality(NewRowsOf("member_special_mentions", req[c].mp_code))

\* ---- C10
\* C10: in every response of get_member_new_activities, total_new is the sum
\* of the four counts, and activities has exactly the four kinds.
C10_TotalIsSum ==
    \A c \in Clients :
        Done(c, "get_member_new_activities") /\ Ok(c) =>
            LET a == resp[c].activities IN
            /\ DOMAIN a = {"new_questions", "new_debates", "new_bills", "new_mentions"}
            /\ resp[c].total_new =
                 a.new_questions + a.new_debates + a.new_bills + a.new_mentions

C10_Witness ==
    \E c \in Clients :
        /\ Done(c, "get_member_new_activities") /\ Ok(c)
        /\ resp[c].activities.new_questions = 1
        /\ resp[c].activities.new_bills = 1
        /\ resp[c].total_new = 2

\* ---- C11
\* C11: get_member_new_activities called with an mp_code that belongs to no
\* member answers normally (no error), with all four counts and total_new 0.
C11_UnknownMemberZeros ==
    \A c \in Clients :
        Done(c, "get_member_new_activities") /\ req[c].mp_code \notin Members =>
            /\ Ok(c)
            /\ resp[c].activities =
                 [new_questions |-> 0, new_debates |-> 0, new_bills |-> 0,
                  new_mentions |-> 0]
            /\ resp[c].total_new = 0

\* ---- C12
\* C12: no step changes a row's is_new from false to true: an acknowledged row
\* stays acknowledged whatever operations follow, in whatever order.
C12_NeverUnseenAgain ==
    [][ \A T \in Trackable : \A i \in DOMAIN store[T] :
          store[T][i].is_new = FALSE =>
             i \in DOMAIN store'[T] /\ store'[T][i].is_new = FALSE ]_vars

\* an acknowledged row was acknowledged again, one by one and then in bulk
C12_Witness ==
    \E c \in Clients :
        /\ Done(c, "mark_all_read") /\ Ok(c) /\ resp[c].records_marked = 0
        /\ req[c].prev.op = "none"
        /\ \E i \in DOMAIN store[req[c].key] : store[req[c].key][i].is_new = FALSE

\* ---- C13
\* C13: every request gives its pooled connection back on every exit path
\* (return, HTTPException, store failure): once all requests have finished,
\* no connection of the 10-connection pool is checked out.
C13_AllReleased ==
    (\A c \in Clients : req[c].pc \in {"idle", "done"}) => pool = 10

\* ---- C14
\* C14: nothing in mark_all_read keeps two concurrent calls on one table from
\* both reporting a nonzero records_marked: when a call has reported a nonzero
\* count and the scraper has inserted unseen rows since, another client's call
\* on the same table is carried out at once, succeeds, and reports exactly the
\* rows inserted in between; the first call's answer stands.
C14_BothNonzero ==
    [][ \A c \in Clients :
          (req'[c].op = "mark_all_read" /\ req'[c].key \in allowed_tables
             /\ OwnStep(c)) =>
            \A d \in Clients \ {c} :
               (/\ Done(d, "mark_all_read") /\ req[d].key = req'[c].key
                /\ Ok(d) /\ resp[d].records_marked > 0
                /\ NewRows(req'[c].key) # {})
               => /\ resp'[c].status = 200
                  /\ resp'[c].records_marked = Cardinality(NewRows(req'[c].key))
                  /\ resp'[c].records_marked > 0
                  /\ resp'[d] = resp[d] ]_vars

C14_Witness ==
    \E c, d \in Clients :
        /\ c # d
        /\ Done(c, "mark_all_read") /\ Done(d, "mark_all_read")
        /\ req[c].key = req[d].key
        /\ Ok(c) /\ Ok(d)
        /\ resp[c].records_marked > 0 /\ resp[d].records_marked > 0

\* ---- C15
\* the table an acknowledgment names
AckTarget(r) ==
    IF r.op = "mark_all_read" THEN r.key ELSE SingleAckTable(r.op)

\* C15: an operation of the API writes nothing but is_new of rows of trackable
\* tables: no step of a request adds or removes a row or changes another column
\* of a row, or changes scrape_tracker; an acknowledgment leaves every table
\* other than the one it names as it is.
C15_OnlyIsNew ==
    [][ \/ store' = store
        \/ \A c \in Clients :
              OwnStep(c) =>
                /\ req'[c].op \in AckOps
                /\ \A T \in Trackable \ {AckTarget(req'[c])} : store'[T] = store[T]
                /\ store'["scrape_tracker"] = store["scrape_tracker"]
                /\ LET T == AckTarget(req'[c]) IN
                   /\ DOMAIN store'[T] = DOMAIN store[T]
                   /\ \A i \in DOMAIN store[T] :
                        /\ store'[T][i].owner = store[T][i].owner
                        /\ store'[T][i].scraped_at = store[T][i].scraped_at
                        /\ DOMAIN store'[T][i] = DOMAIN store[T][i] ]_vars

\* a bulk acknowledgment cleared rows of two members while another table had
\* unseen rows and the tracker had rows
C15_Witness ==
    \E c \in Clients :
        /\ Done(c, "mark_all_read") /\ Ok(c) /\ resp[c].records_marked = 2
        /\ \E T \in Trackable \ {req[c].key} : NewRows(T) # {}
        /\ Cardinality(store["scrape_tracker"]) = 2

\* ---- C16
\* two answered read requests that asked the same thing
SameRead(c, d) ==
    /\ req[c].op = req[d].op /\ req[c].op \in ReadOps
    /\ req[c].pc = "done" /\ req[d].pc = "done"
    /\ Ok(c) /\ Ok(d)
    /\ req[c].op = "get_new_questions" =>
          resp[c].page = resp[d].page /\ resp[c].size = resp[d].size
    /\ req[c].op = "get_member_new_activities" => req[c].mp_code = req[d].mp_code

\* the counts of the two answers are the same
SameCounts(c, d) ==
    CASE req[c].op = "get_new_data_summary" ->
            /\ resp[c].total_new_records = resp[d].total_new_records
            /\ resp[c].tables = resp[d].tables
      [] req[c].op = "get_new_questions" ->
            /\ resp[c].total_new = resp[d].total_new
            /\ resp[c].pages = resp[d].pages
            /\ Len(resp[c].data) = Len(resp[d].data)
      [] req[c].op = "get_member_new_activities" ->
            /\ resp[c].activities = resp[d].activities
            /\ resp[c].total_new = resp[d].total_new
      [] req[c].op = "get_scrape_tracker" ->
            { resp[c].trackers[k] : k \in 1..Len(resp[c].trackers) }
              = { resp[d].trackers[k] : k \in 1..Len(resp[d].trackers) }

\* C16: a step of a read request leaves the store as it is (a row listed or
\* counted keeps its is_new), and a read repeated with no acknowledgment or
\* scraper step since the first one began returns the same counts.
C16_ReadsChangeNothing ==
    /\ [][ \A c \in Clients :
             req'[c].op \in ReadOps /\ OwnStep(c) => store' = store ]_vars
    /\ [](\A c, d \in Clients :
             (c # d /\ SameRead(c, d) /\ req[c].quiet /\ req[d].quiet)
                => SameCounts(c, d))

\* a listing answered twice with the same unseen rows, which are still unseen
C16_Witness ==
    /\ SameRead(1, 2) /\ req[1].quiet /\ req[2].quiet
    /\ req[1].op = "get_new_questions"
    /\ resp[1].total_new = 2 /\ Len(resp[1].data) = 2
    /\ resp[2].data = resp[1].data
    /\ \A k \in 1..2 : resp[2].data[k].id \in NewRows("member_questions")
    /\ \E i \in DOMAIN store["member_questions"] : i \notin NewRows("member_questions")

\* ---- C17
\* the tables the summary counts that no acknowledgment endpoint serves
Unacknowledgeable ==
    { "member_attendance", "member_committees", "member_dashboard",
      "member_other_details", "member_personal_details", "mp_tour" }

\* the table a summary step reads
SummaryReads(c) ==
    SummaryTables[IF req[c].op = "get_new_data_summary" /\ req[c].pc = "loop"
                  THEN req[c].i ELSE 1]

\* C17: no step changes the is_new of a row of member_attendance,
\* member_committees, member_dashboard, member_other_details,
\* member_personal_details or mp_tour; a summary that reads such a table while
\* it has an unseen row lists it with its count, keeps the entry to the end and
\* returns it.
C17_NeverCleared ==
    [][ /\ \A T \in Unacknowledgeable : \A i \in DOMAIN store[T] :
             i \in DOMAIN store'[T] /\ store'[T][i].is_new = store[T][i].is_new
        /\ \A c \in Clients :
             req'[c].op = "get_new_data_summary" /\ OwnStep(c) =>
                LET T == SummaryReads(c)
                    before == SummaryBefore(c)
                    after == req'[c].summary
                IN  /\ (T \in Unacknowledgeable /\ NewRows(T) # {}) =>
                         /\ Len(after) = Len(before) + 1
                         /\ after[Len(after)] =
                              [table |-> T, new_count |-> Cardinality(NewRows(T))]
                    /\ \A k \in 1..Len(before) : after[k] = before[k]
                    /\ req'[c].pc = "done" =>
                         resp'[c].status = 200 /\ resp'[c].tables = after ]_vars

\* mark_all_read was refused for member_attendance, and a summary lists that
\* table and mp_tour with the rows the scraper inserted
C17_Witness ==
    /\ Done(2, "mark_all_read") /\ req[2].key = "member_attendance"
    /\ resp[2].status = 400
    /\ Done(1, "get_new_data_summary")
    /\ resp[1].tables = << [table |-> "member_attendance", new_count |-> 2],
                           [table |-> "mp_tour", new_count |-> 1] >>

\* ---- C18
\* the clients whose mark_all_read on T has been answered
MarkedAll(T) == { c \in Clients : Done(c, "mark_all_read") /\ req[c].key = T }

RECURSIVE SumMarked(_)
\* the sum of the records_marked the clients of D were answered
SumMarked(D) ==
    IF D = {} THEN 0
    ELSE LET c == CHOOSE x \in D : TRUE
         IN  resp[c].records_marked + SumMarked(D \ {c})

\* C18: when clients call mark_all_read on one table concurrently and nothing
\* else acknowledges, every row is counted by exactly one call: the counts
\* returned add up to the number of rows acknowledged, and after a call that no
\* insert followed no row is unseen, so that without an insert between the calls
\* the sum is the number of rows that were unseen before the first call.
C18_EachRowOnce ==
    \A T \in allowed_tables :
        LET D == MarkedAll(T) IN
        /\ \A c \in D : Ok(c)
        /\ SumMarked(D) = Cardinality(DOMAIN store[T] \ NewRows(T))
        /\ (\E c \in D : req[c].quiet) =>
              NewRows(T) = {} /\ SumMarked(D) = Len(store[T])

\* three calls on a table of two unseen rows: one call counted both
C18_Witness ==
    /\ MarkedAll("member_debates") = Clients
    /\ Len(store["member_debates"]) = 2
    /\ \E c \in Clients :
          /\ resp[c].records_marked = 2
          /\ \A d \in Clients \ {c} : resp[d].records_marked = 0

\* ---- C19
\* the data length the response's own total_new, page and size call for
FittingLength(r) == Min(r.size, Max(0, r.total_new - (r.page - 1) * r.size))

\* C19 as stated: in every response of a per-table unseen listing the data
\* length is min(size, max(0, total_new - (page-1)*size)), also when an
\* acknowledgment or an insert on the table ran between the count query and the
\* data query.
C19_Original ==
    \A c \in Clients, op \in ListingOps :
        Done(c, op) /\ Ok(c) => Len(resp[c].data) = FittingLength(resp[c])

\* C19 as amended: the data length is min(size, max(0, total_new -
\* (page-1)*size)) when no acknowledgment or insert on the table ran since the
\* count query; in every response it is at most size.
C19_LengthFits ==
    \A c \in Clients, op \in ListingOps :
        Done(c, op) /\ Ok(c) =>
            /\ Len(resp[c].data) <= resp[c].size
            /\ req[c].quiet => Len(resp[c].data) = FittingLength(resp[c])

\* page 2 of two unseen questions, one by one, listed after a bulk
\* acknowledgment and two inserts
C19_Witness ==
    /\ Done(2, "get_new_questions") /\ Ok(2) /\ req[2].quiet
    /\ resp[2].size = 1 /\ resp[2].total_new = 2 /\ Len(resp[2].data) = 1
    /\ Done(3, "mark_all_read") /\ resp[3].records_marked = 1

\* ---- C20
\* the unseen rows of T have scraped_at values that differ from each other
DistinctTimes(T) ==
    \A i, j \in NewRows(T) : i # j => store[T][i].scraped_at # store[T][j].scraped_at

\* the clients that were answered a page of the unseen questions in this size,
\* with no write to the table since they asked
Walk(size) ==
    { c \in Clients : /\ Done(c, "get_new_questions") /\ Ok(c) /\ req[c].quiet
                      /\ resp[c].size = size }

\* the row with primary key i is among the records of c's response
Lists(c, i) == \E k \in 1..Len(resp[c].data) : resp[c].data[k].id = i

\* C20: with the store unchanged between the calls and the scraped_at values
\* of the unseen rows distinct, the pages 1..pages of the unseen listing in
\* one size hold every unseen row exactly once, and a page greater than pages
\* is answered normally with the same total_new and an empty data list.
C20_PagesPartition ==
    LET T == "member_questions" IN
    DistinctTimes(T) =>
      \A size \in {1, 2} :
        LET W == Walk(size) IN
        \A c \in W :
          /\ resp[c].total_new = Cardinality(NewRows(T))
          /\ \A d \in W : resp[d].pages = resp[c].pages
          /\ resp[c].page > resp[c].pages => resp[c].data = << >>
          /\ \A j, k \in 1..Len(resp[c].data) :
                resp[c].data[j].id = resp[c].data[k].id => j = k
          /\ (\A p \in 1..resp[c].pages : \E d \in W : resp[d].page = p) =>
                \A i \in NewRows(T) :
                   Cardinality({ d \in W : resp[d].page <= resp[c].pages /\ Lists(d, i) }) = 1

\* two unseen questions scraped at different times, listed one per page
C20_Witness ==
    /\ Walk(1) = {1, 2}
    /\ DistinctTimes("member_questions")
    /\ resp[1].pages = 2 /\ resp[1].total_new = 2
    /\ Lists(1, 3) /\ Lists(2, 2)
====
